---------------------------- MODULE Spec2Model ----------------------------
(***************************************************************************)
(* Minesweeper (src/minesweeper.py): the board (class Minesweeper), the    *)
(* logical sentence (class Sentence) and the player (class MinesweeperAI)  *)
(* with its knowledge base and the deduction loop of add_knowledge.        *)
(*                                                                         *)
(* Four specifications are defined over the same variables:               *)
(*   Spec          the player driven by an arbitrary caller: any in-bounds *)
(*                 cell, any count from 0 to the number of its neighbours; *)
(*   GameSpec      the player driven by a board: every reveal is a cell    *)
(*                 without a mine, reported with its true nearby_mines;    *)
(*   ConstructSpec the constructor of the board, placing mines at random;  *)
(*   SentenceSpec  one sentence and the four methods of class Sentence.    *)
(***************************************************************************)
EXTENDS Integers, Sequences, FiniteSets

\* Bounds of the model.
Height == 3
Width == 3
MaxMines == 2
MaxCalls == 3
MaxPasses == 6

VARIABLES
    requested,   \* Minesweeper.__init__: the argument mines
    board,       \* Minesweeper.mines: the cells holding a mine (board[i][j] = True)
    game,        \* the constructor's position: "placing", "ready"
    moves_made,  \* MinesweeperAI.moves_made
    mines,       \* MinesweeperAI.mines
    safes,       \* MinesweeperAI.safes
    knowledge,   \* MinesweeperAI.knowledge: a list of sentences
    pc,          \* the player's position: "idle", or "loop" inside add_knowledge
    change,      \* add_knowledge: the local flag of the while loop
    cell,        \* add_knowledge: the argument cell of the latest call
    count,       \* add_knowledge: the argument count of the latest call
    appended,    \* self.knowledge as it was when the latest call appended its sentence
                 \* (SentenceSpec: the sentence as it was before the latest method call)
    before,      \* moves_made, mines, safes as they were when the latest call began
    passes,      \* passes of the while loop made by the latest call (saturating)
    calls,       \* number of add_knowledge calls so far
    revealed_mine, \* whether some call was made for a cell then in self.mines
    op,          \* the latest operation called on the player
    ret          \* what the latest make_safe_move / make_random_move returned

vars == <<requested, board, game, moves_made, mines, safes, knowledge, pc,
          change, cell, count, appended, before, passes, calls, revealed_mine,
          op, ret>>

boardVars == <<requested, board, game>>
callVars == <<cell, count, appended, before, passes, calls, revealed_mine>>

\* Python's None, as returned by the two move queries.
None == <<>>

\* The cells (i, j) of the board, 0 <= i < height and 0 <= j < width.
Cells == (0 .. Height - 1) \X (0 .. Width - 1)

\* The in-bounds cells within one row and column of c, c itself excluded.
Neighbours(c) ==
    { n \in Cells : /\ n # c
                    /\ n[1] \in (c[1] - 1) .. (c[1] + 1)
                    /\ n[2] \in (c[2] - 1) .. (c[2] + 1) }

\* Minesweeper.nearby_mines on the board b.
nearby_mines(b, c) == Cardinality(Neighbours(c) \cap b)

-----------------------------------------------------------------------------
(* class Sentence *)

Sentence(cells, n) == [cells |-> cells, count |-> n]

\* A method's optional result: Python's None, or the set returned.
Nothing == [none |-> TRUE, cells |-> {}]
Just(cs) == [none |-> FALSE, cells |-> cs]

\* Mutant: a sentence without cells gives no conclusion.
known_mines_unless_empty(s) ==
    IF Cardinality(s.cells) = s.count /\ s.cells # {} THEN Just(s.cells) ELSE Nothing

known_mines(s) ==
    IF Cardinality(s.cells) = s.count THEN Just(s.cells) ELSE Nothing

\* Mutant: the number of cells is tested in place of the count.
known_safes_by_size(s) ==
    IF Cardinality(s.cells) = 0 THEN Just(s.cells) ELSE Nothing

known_safes(s) ==
    IF s.count = 0 THEN Just(s.cells) ELSE Nothing

\* Mutant: the cell is removed and the count is kept.
Sentence_mark_mine_keeping_count(s, c) ==
    IF c \in s.cells THEN Sentence(s.cells \ {c}, s.count) ELSE s

\* Mutant: the count is decreased whether the cell is in the sentence or not.
Sentence_mark_mine_blind(s, c) == Sentence(s.cells \ {c}, s.count - 1)

Sentence_mark_mine(s, c) ==
    IF c \in s.cells THEN Sentence(s.cells \ {c}, s.count - 1) ELSE s

\* Mutant: the count is decreased as for a mine.
Sentence_mark_safe_decreasing(s, c) ==
    IF c \in s.cells THEN Sentence(s.cells \ {c}, s.count - 1) ELSE s

Sentence_mark_safe(s, c) ==
    IF c \in s.cells THEN Sentence(s.cells \ {c}, s.count) ELSE s

-----------------------------------------------------------------------------
(* class MinesweeperAI: kb is the record of self.mines, self.safes and       *)
(* self.knowledge that the marking methods update.                           *)

KB(m, s, k) == [mines |-> m, safes |-> s, knowledge |-> k]

\* Mutant: the cell is recorded and the sentences are left as they are.
mark_mine_unpropagated(kb, c) == KB(kb.mines \cup {c}, kb.safes, kb.knowledge)

mark_mine(kb, c) ==
    KB(kb.mines \cup {c}, kb.safes,
       [k \in DOMAIN kb.knowledge |-> Sentence_mark_mine(kb.knowledge[k], c)])

\* Mutant: a cell marked safe is taken out of self.mines.
mark_safe_exclusive(kb, c) ==
    KB(kb.mines \ {c}, kb.safes \cup {c},
       [k \in DOMAIN kb.knowledge |-> Sentence_mark_safe(kb.knowledge[k], c)])

mark_safe(kb, c) ==
    KB(kb.mines, kb.safes \cup {c},
       [k \in DOMAIN kb.knowledge |-> Sentence_mark_safe(kb.knowledge[k], c)])

\* for cell in copy_cells: self.mark_mine(cell)
RECURSIVE mark_mines(_, _)
mark_mines(kb, cs) ==
    IF cs = {} THEN kb
    ELSE LET c == CHOOSE x \in cs : TRUE
         IN  mark_mines(mark_mine(kb, c), cs \ {c})

\* for cell in copy_cells: self.mark_safe(cell)
RECURSIVE mark_safes(_, _)
mark_safes(kb, cs) ==
    IF cs = {} THEN kb
    ELSE LET c == CHOOSE x \in cs : TRUE
         IN  mark_safes(mark_safe(kb, c), cs \ {c})

\* The two tests made on the k-th sentence by the first for loop of a pass.
resolve_sentence(kb, k) ==
    LET s   == kb.knowledge[k]
        m   == known_mines(s)
        kb1 == IF ~m.none /\ m.cells = s.cells /\ Cardinality(s.cells) # 0
               THEN mark_mines(kb, s.cells) ELSE kb
        s1  == kb1.knowledge[k]
        f   == known_safes(s1)
    IN  IF ~f.none /\ f.cells = s1.cells /\ Cardinality(s1.cells) # 0
        THEN mark_safes(kb1, s1.cells) ELSE kb1

\* for sentence in self.knowledge: ... from the k-th sentence on.
RECURSIVE resolve_loop(_, _)
resolve_loop(kb, k) ==
    IF k > Len(kb.knowledge) THEN kb
    ELSE resolve_loop(resolve_sentence(kb, k), k + 1)

\* The knowledge bases the first for loop goes through while it handles the
\* k-th sentence: one after each single self.mark_mine(cell) or
\* self.mark_safe(cell). copy_cells is a set, iterated in any order, so the
\* cells marked so far are any part of it.
sentence_states(kb, k) ==
    LET s   == kb.knowledge[k]
        m   == known_mines(s)
        kb1 == IF ~m.none /\ m.cells = s.cells /\ Cardinality(s.cells) # 0
               THEN mark_mines(kb, s.cells) ELSE kb
        s1  == kb1.knowledge[k]
        f   == known_safes(s1)
    IN  (IF ~m.none /\ m.cells = s.cells /\ Cardinality(s.cells) # 0
         THEN { mark_mines(kb, d) : d \in SUBSET s.cells } ELSE {kb})
        \cup
        (IF ~f.none /\ f.cells = s1.cells /\ Cardinality(s1.cells) # 0
         THEN { mark_safes(kb1, d) : d \in SUBSET s1.cells } ELSE {kb1})

\* The knowledge bases the first for loop goes through from the k-th
\* sentence on.
RECURSIVE resolve_states(_, _)
resolve_states(kb, k) ==
    IF k > Len(kb.knowledge) THEN {kb}
    ELSE sentence_states(kb, k) \cup resolve_states(resolve_sentence(kb, k), k + 1)

\* x in list, by Sentence.__eq__.
Contains(list, x) == \E k \in DOMAIN list : list[k] = x

\* list.remove(x): the first entry equal to x is removed.
remove(list, x) ==
    IF ~Contains(list, x) THEN list
    ELSE LET k == CHOOSE i \in DOMAIN list :
                      list[i] = x /\ \A j \in 1 .. (i - 1) : list[j] # x
         IN  SubSeq(list, 1, k - 1) \o SubSeq(list, k + 1, Len(list))

\* Mutant: a sentence with no cells is removed only if its count is 0.
RECURSIVE prune_loop_zero_count(_, _, _)
prune_loop_zero_count(list, org, k) ==
    IF k > Len(org) THEN list
    ELSE prune_loop_zero_count(IF Cardinality(org[k].cells) = 0 /\ org[k].count = 0
                               THEN remove(list, org[k]) ELSE list,
                               org, k + 1)

\* Each sentence of the copy org with no cells is removed from the list.
RECURSIVE prune_loop(_, _, _)
prune_loop(list, org, k) ==
    IF k > Len(org) THEN list
    ELSE prune_loop(IF Cardinality(org[k].cells) = 0
                    THEN remove(list, org[k]) ELSE list,
                    org, k + 1)

\* Mutant: the new sentence takes the count of the larger sentence.
subset_step_keeping_count(st, org, i, j) ==
    IF org[i].cells \subseteq org[j].cells /\ org[i].cells # org[j].cells
    THEN LET new_sentence == Sentence(org[j].cells \ org[i].cells, org[j].count)
             added == IF ~Contains(st.knowledge, new_sentence)
                      THEN Append(st.knowledge, new_sentence)
                      ELSE st.knowledge
         IN  [knowledge |-> IF Contains(added, org[j])
                            THEN remove(added, org[j]) ELSE added,
              change |-> TRUE]
    ELSE st

\* Mutant: the flag is not set when a pair is found.
subset_step_unflagged(st, org, i, j) ==
    IF org[i].cells \subseteq org[j].cells /\ org[i].cells # org[j].cells
    THEN LET new_sentence == Sentence(org[j].cells \ org[i].cells,
                                      org[j].count - org[i].count)
             added == IF ~Contains(st.knowledge, new_sentence)
                      THEN Append(st.knowledge, new_sentence)
                      ELSE st.knowledge
         IN  [knowledge |-> IF Contains(added, org[j])
                            THEN remove(added, org[j]) ELSE added,
              change |-> st.change]
    ELSE st

\* Mutant: the larger sentence of a pair is left in the list.
subset_step_keeping_larger(st, org, i, j) ==
    IF org[i].cells \subseteq org[j].cells /\ org[i].cells # org[j].cells
    THEN LET new_sentence == Sentence(org[j].cells \ org[i].cells,
                                      org[j].count - org[i].count)
         IN  [knowledge |-> IF ~Contains(st.knowledge, new_sentence)
                            THEN Append(st.knowledge, new_sentence)
                            ELSE st.knowledge,
              change |-> TRUE]
    ELSE st

\* The body of the two nested loops over the copy org, for the pair
\* sentence = org[i], other_sentence = org[j]; st is the list and the flag.
subset_step(st, org, i, j) ==
    IF org[i].cells \subseteq org[j].cells /\ org[i].cells # org[j].cells
    THEN LET new_sentence == Sentence(org[j].cells \ org[i].cells,
                                      org[j].count - org[i].count)
             added == IF ~Contains(st.knowledge, new_sentence)
                      THEN Append(st.knowledge, new_sentence)
                      ELSE st.knowledge
         IN  [knowledge |-> IF Contains(added, org[j])
                            THEN remove(added, org[j]) ELSE added,
              change |-> TRUE]
    ELSE st

\* The nested loops, from the p-th pair on (pairs counted row by row from 0).
RECURSIVE subset_loop(_, _, _)
subset_loop(st, org, p) ==
    IF p >= Len(org) * Len(org) THEN st
    ELSE subset_loop(subset_step(st, org, (p \div Len(org)) + 1,
                                 (p % Len(org)) + 1),
                     org, p + 1)

\* Mutant: neighbours already known safe are kept in the new sentence.
new_neighbors_keeping_safes(c, m, s, mv) == Neighbours(c) \ (m \cup mv)

\* The cells of the new sentence: the neighbours of undetermined state.
new_neighbors(c, m, s, mv) == Neighbours(c) \ (m \cup s \cup mv)

\* Mutant: the count is taken as given.
new_count_unadjusted(c, n, m) == n

\* The count of the new sentence: one less for each neighbour known as a mine.
new_count(c, n, m) == n - Cardinality(Neighbours(c) \cap m)

\* add_knowledge(c, n) up to the while loop.
AddKnowledge(c, n) ==
    /\ pc = "idle"
    /\ calls < MaxCalls
    /\ LET kb == mark_safe(KB(mines, safes, knowledge), c)
           mv == moves_made \cup {c}
           neighbors_sentence ==
               Sentence(new_neighbors(c, kb.mines, kb.safes, mv),
                        new_count(c, n, kb.mines))
       IN  /\ moves_made' = mv
           /\ mines' = kb.mines
           /\ safes' = kb.safes
           /\ knowledge' = Append(kb.knowledge, neighbors_sentence)
           /\ appended' = Append(kb.knowledge, neighbors_sentence)
    /\ before' = [moves_made |-> moves_made, mines |-> mines, safes |-> safes]
    /\ change' = TRUE
    /\ pc' = "loop"
    /\ cell' = c
    /\ count' = n
    /\ passes' = 0
    /\ calls' = calls + 1
    /\ revealed_mine' = (revealed_mine \/ c \in mines)
    /\ op' = "add_knowledge"
    /\ ret' = None
    /\ UNCHANGED boardVars

\* One pass of the while loop.
Pass ==
    /\ pc = "loop"
    /\ change = TRUE
    /\ LET kb  == resolve_loop(KB(mines, safes, knowledge), 1)
           kn  == prune_loop(kb.knowledge, kb.knowledge, 1)
           st  == subset_loop([knowledge |-> kn, change |-> FALSE], kn, 0)
       IN  /\ mines' = kb.mines
           /\ safes' = kb.safes
           /\ knowledge' = st.knowledge
           /\ change' = st.change
    /\ passes' = IF passes < MaxPasses THEN passes + 1 ELSE passes
    /\ UNCHANGED <<boardVars, moves_made, pc, cell, count, appended, before,
                   calls, revealed_mine, op, ret>>

\* The while loop is left and add_knowledge returns.
Return ==
    /\ pc = "loop"
    /\ change = FALSE
    /\ pc' = "idle"
    /\ UNCHANGED <<boardVars, moves_made, mines, safes, knowledge, change,
                   callVars, op, ret>>

\* The scan of make_safe_move from the p-th cell on, row by row.
RECURSIVE safe_scan(_, _, _)
safe_scan(s, mv, p) ==
    IF p >= Height * Width THEN None
    ELSE LET position == <<p \div Width, p % Width>>
         IN  IF position \in s /\ position \notin mv THEN position
             ELSE safe_scan(s, mv, p + 1)

\* Mutant: the scan goes column by column.
RECURSIVE safe_scan_by_columns(_, _, _)
safe_scan_by_columns(s, mv, p) ==
    IF p >= Height * Width THEN None
    ELSE LET position == <<p % Height, p \div Height>>
         IN  IF position \in s /\ position \notin mv THEN position
             ELSE safe_scan_by_columns(s, mv, p + 1)

make_safe_move_by_columns(s, mv) == safe_scan_by_columns(s, mv, 0)

make_safe_move(s, mv) == safe_scan(s, mv, 0)

\* Mutant: the cell returned is recorded as a move made.
MakeSafeMove_recording ==
    /\ pc = "idle"
    /\ op' = "make_safe_move"
    /\ ret' = make_safe_move(safes, moves_made)
    /\ moves_made' = IF make_safe_move(safes, moves_made) = None THEN moves_made
                     ELSE moves_made \cup {make_safe_move(safes, moves_made)}
    /\ UNCHANGED <<boardVars, mines, safes, knowledge, pc, change, callVars>>

MakeSafeMove ==
    /\ pc = "idle"
    /\ op' = "make_safe_move"
    /\ ret' = make_safe_move(safes, moves_made)
    /\ UNCHANGED <<boardVars, moves_made, mines, safes, knowledge, pc, change,
                   callVars>>

\* Mutant: cells known as mines are not left out.
possible_cells_with_mines(mv, m) == { position \in Cells : position \notin mv }

\* The list built by make_random_move, as a set.
possible_cells(mv, m) == { position \in Cells : position \notin mv /\ position \notin m }

MakeRandomMove ==
    /\ pc = "idle"
    /\ op' = "make_random_move"
    /\ IF Cardinality(possible_cells(moves_made, mines)) = 0
       THEN ret' = None
       ELSE ret' \in possible_cells(moves_made, mines)
    /\ UNCHANGED <<boardVars, moves_made, mines, safes, knowledge, pc, change,
                   callVars>>

-----------------------------------------------------------------------------
(* The player: MinesweeperAI.__init__ *)

InitAI ==
    /\ moves_made = {}
    /\ mines = {}
    /\ safes = {}
    /\ knowledge = <<>>
    /\ pc = "idle"
    /\ change = FALSE
    /\ cell = None
    /\ count = 0
    /\ appended = <<>>
    /\ before = [moves_made |-> {}, mines |-> {}, safes |-> {}]
    /\ passes = 0
    /\ calls = 0
    /\ revealed_mine = FALSE
    /\ op = "init"
    /\ ret = None

\* The player beside a board without mines, driven by any caller.
Init ==
    /\ requested = 0
    /\ board = {}
    /\ game = "ready"
    /\ InitAI

Next ==
    \/ \E c \in Cells : \E n \in 0 .. Cardinality(Neighbours(c)) : AddKnowledge(c, n)
    \/ Pass
    \/ Return
    \/ MakeSafeMove
    \/ MakeRandomMove

Spec == Init /\ [][Next]_vars


-----------------------------------------------------------------------------
(* The player driven by a board: each reveal is a cell without a mine,      *)
(* reported with Minesweeper.nearby_mines.                                  *)

\* The boards Minesweeper(Height, Width, m) can construct, m <= MaxMines.
GameInit ==
    /\ board \in { b \in SUBSET Cells : Cardinality(b) <= MaxMines }
    /\ requested = Cardinality(board)
    /\ game = "ready"
    /\ InitAI

Reveal(c) ==
    /\ c \notin board
    /\ AddKnowledge(c, nearby_mines(board, c))

GameNext ==
    \/ \E c \in Cells : Reveal(c)
    \/ Pass
    \/ Return
    \/ MakeSafeMove
    \/ MakeRandomMove

GameSpec == GameInit /\ [][GameNext]_vars

-----------------------------------------------------------------------------
(* Minesweeper.__init__: the while loop that adds mines randomly.           *)

aiVars == <<moves_made, mines, safes, knowledge, pc, change, callVars, op, ret>>

ConstructInit ==
    /\ requested \in 0 .. (Height * Width + 1)
    /\ board = {}
    /\ game = "placing"
    /\ InitAI

\* One turn of the loop: a random cell (i, j), made a mine if it is none yet.
PlaceMine(i, j) ==
    /\ game = "placing"
    /\ Cardinality(board) # requested
    /\ board' = IF <<i, j>> \notin board THEN board \cup {<<i, j>>} ELSE board
    /\ UNCHANGED <<requested, game, aiVars>>

\* The loop is left and the constructor returns the board.
Constructed ==
    /\ game = "placing"
    /\ Cardinality(board) = requested
    /\ game' = "ready"
    /\ UNCHANGED <<requested, board, aiVars>>

ConstructNext ==
    \/ \E i \in 0 .. (Height - 1) : \E j \in 0 .. (Width - 1) : PlaceMine(i, j)
    \/ Constructed

ConstructSpec == ConstructInit /\ [][ConstructNext]_vars /\ WF_vars(ConstructNext)

-----------------------------------------------------------------------------
(* class Sentence alone: a sentence as add_knowledge builds it (cells among *)
(* the neighbours of a cell, any count up to their number), held as the     *)
(* only entry of the list, and its four methods called in any order.        *)

SentenceInit ==
    /\ requested = 0
    /\ board = {}
    /\ game = "ready"
    /\ moves_made = {}
    /\ mines = {}
    /\ safes = {}
    /\ \E c \in Cells : \E cs \in SUBSET Neighbours(c) :
           \E n \in 0 .. Cardinality(Neighbours(c)) :
               knowledge = <<Sentence(cs, n)>>
    /\ pc = "idle"
    /\ change = FALSE
    /\ cell = None
    /\ count = 0
    /\ appended = <<>>
    /\ before = [moves_made |-> {}, mines |-> {}, safes |-> {}]
    /\ passes = 0
    /\ calls = 0
    /\ revealed_mine = FALSE
    /\ op = "init"
    /\ ret = None

sentenceFrame ==
    <<boardVars, moves_made, mines, safes, pc, change, count, before, passes,
      calls, revealed_mine>>

SentenceMarkMine(c) ==
    /\ op' = "Sentence.mark_mine"
    /\ cell' = c
    /\ appended' = knowledge
    /\ knowledge' = <<Sentence_mark_mine(knowledge[1], c)>>
    /\ ret' = None
    /\ UNCHANGED sentenceFrame

SentenceMarkSafe(c) ==
    /\ op' = "Sentence.mark_safe"
    /\ cell' = c
    /\ appended' = knowledge
    /\ knowledge' = <<Sentence_mark_safe(knowledge[1], c)>>
    /\ ret' = None
    /\ UNCHANGED sentenceFrame

SentenceKnownMines ==
    /\ op' = "Sentence.known_mines"
    /\ ret' = known_mines(knowledge[1])
    /\ appended' = knowledge
    /\ UNCHANGED <<sentenceFrame, cell, knowledge>>

SentenceKnownSafes ==
    /\ op' = "Sentence.known_safes"
    /\ ret' = known_safes(knowledge[1])
    /\ appended' = knowledge
    /\ UNCHANGED <<sentenceFrame, cell, knowledge>>

SentenceNext ==
    \/ \E c \in Cells : SentenceMarkMine(c)
    \/ \E c \in Cells : SentenceMarkSafe(c)
    \/ SentenceKnownMines
    \/ SentenceKnownSafes

SentenceSpec == SentenceInit /\ [][SentenceNext]_vars

-----------------------------------------------------------------------------
(* Properties *)

\* C1 as stated: after any sequence of add_knowledge calls with an in-bounds
\* cell and a count from 0 to the number of its neighbours, no cell is in
\* both self.mines and self.safes.
MinesSafesDisjoint == mines \cap safes = {}

\* C1, amended: after any sequence of such calls none of which was made for a
\* cell that was in self.mines when it was called, no cell is in both
\* self.mines and self.safes.
MinesSafesDisjointUnlessMineRevealed ==
    ~revealed_mine => mines \cap safes = {}

\* C1 witness: three calls, none for a known mine, have left both sets filled.
MinesAndSafesKnown ==
    /\ pc = "idle"
    /\ calls = MaxCalls
    /\ ~revealed_mine
    /\ Cardinality(mines) >= 2
    /\ Cardinality(safes \ moves_made) >= 2

\* C2: in play driven by the board, every cell of self.mines holds a mine, no
\* cell of self.safes holds one, and make_safe_move never returns a mine.
CertaintySetsSound ==
    /\ mines \subseteq board
    /\ safes \cap board = {}
    /\ (op = "make_safe_move" /\ ret # None) => ret \notin board

\* C2 witness: mines were deduced and make_safe_move has returned a cell.
SafeMoveBesideKnownMines ==
    /\ op = "make_safe_move"
    /\ ret # None
    /\ mines # {}
    /\ mines = board

\* C3: every call of add_knowledge leaves its while loop after finitely many
\* passes: inside the loop the call makes its next pass or returns (the flag
\* decides which), and no call makes as many as MaxPasses passes, the number
\* at which the counter of passes stops.
AddKnowledgeTerminates ==
    /\ pc = "loop" => change \in BOOLEAN
    /\ passes < MaxPasses

\* C3 witness: a call that returned after three passes of the loop.
ReturnedAfterManyPasses == pc = "idle" /\ passes >= 3

\* C4: in play driven by the board, when add_knowledge(cell, 0) has returned,
\* every neighbour of cell is in self.safes; so is it for the centre of the
\* 3x3 board without mines, revealed first.
ZeroRevealMarksNeighbours ==
    /\ (pc = "idle" /\ calls > 0 /\ count = 0) => Neighbours(cell) \subseteq safes
    /\ (pc = "idle" /\ calls = 1 /\ board = {} /\ cell = <<1, 1>>)
           => Neighbours(<<1, 1>>) \subseteq safes

\* C4 witness: the first call add_knowledge((1, 1), 0) on the board without
\* mines has returned with its 8 neighbours safe.
CentreRevealedOnEmptyBoard ==
    /\ pc = "idle"
    /\ calls = 1
    /\ board = {}
    /\ cell = <<1, 1>>
    /\ count = 0
    /\ Cardinality(Neighbours(cell)) = 8
    /\ Neighbours(cell) \subseteq safes

\* C5: in play driven by the board, if the list held, when the call appended
\* its sentence, S1 and S2 with S1.cells a strict subset of S2.cells and
\* S2.count - S1.count = 0, then when the call has returned every cell of
\* S2.cells minus S1.cells is in self.safes.
SubsetInferenceMarksSafe ==
    pc = "idle" =>
        \A i, j \in DOMAIN appended :
            ( /\ appended[i].cells \subseteq appended[j].cells
              /\ appended[i].cells # appended[j].cells
              /\ appended[j].count - appended[i].count = 0 )
            => (appended[j].cells \ appended[i].cells) \subseteq safes

\* C6: make_safe_move returns the first cell, row by row, that is in
\* self.safes and not in self.moves_made, and None exactly when there is none.
SafeMoveIsFirstInRowMajorOrder ==
    op = "make_safe_move" =>
        LET avail == { c \in Cells : c \in safes /\ c \notin moves_made }
        IN  /\ (ret = None) <=> (avail = {})
            /\ ret # None =>
                   /\ ret \in avail
                   /\ \A c \in avail :
                          \/ ret[1] < c[1]
                          \/ (ret[1] = c[1] /\ ret[2] <= c[2])

\* C6 witness: make_safe_move returned a cell although another candidate lies
\* in a column further left (in a later row).
SafeMoveAmongSeveral ==
    /\ op = "make_safe_move"
    /\ ret # None
    /\ \E c \in safes \ moves_made : c[2] < ret[2]

\* C7: a call of make_safe_move leaves self.moves_made, self.mines, self.safes
\* and self.knowledge as they were.
SafeMoveReadsOnly ==
    [][op' = "make_safe_move" => UNCHANGED <<moves_made, mines, safes, knowledge>>]_vars

\* C7 witness: make_safe_move has returned a cell from a knowledge base that
\* holds sentences.
SafeMoveReturnedWithKnowledge ==
    /\ op = "make_safe_move"
    /\ ret # None
    /\ knowledge # <<>>
    /\ mines # {}

\* C8: make_random_move returns None or an in-bounds cell neither in
\* self.moves_made nor in self.mines, and None exactly when every cell of the
\* board is in one of the two.
RandomMoveAvoidsMinesAndMoves ==
    op = "make_random_move" =>
        /\ \/ ret = None
           \/ (ret \in Cells /\ ret \notin moves_made /\ ret \notin mines)
        /\ (ret = None) <=> (\A c \in Cells : c \in moves_made \/ c \in mines)

\* C8 witness: make_random_move returned a cell of unknown state while mines
\* are known.
RandomMoveOfUnknownState ==
    /\ op = "make_random_move"
    /\ ret # None
    /\ ret \notin safes
    /\ mines # {}

\* C9: constructing the board with more mines than cells ends in an error.
ConstructionFailsWhenOverfull ==
    (game = "placing" /\ requested > Height * Width) ~> (game = "error")

\* C10: self.moves_made, self.mines and self.safes only grow, in every step
\* and from the start of an add_knowledge call to its return.
CertaintySetsOnlyGrow ==
    [][ /\ moves_made \subseteq moves_made'
        /\ mines \subseteq mines'
        /\ safes \subseteq safes'
        /\ pc' = "idle" => /\ before'.moves_made \subseteq moves_made'
                           /\ before'.mines \subseteq mines'
                           /\ before'.safes \subseteq safes' ]_vars

\* C10 witness: a call for a known mine has returned with all three sets
\* larger than they were when it began.
SetsGrewAcrossCall ==
    /\ pc = "idle"
    /\ calls >= 2
    /\ revealed_mine
    /\ before.moves_made # moves_made
    /\ before.mines # mines
    /\ before.safes # safes

\* The knowledge bases of the current position: the one held, and inside the
\* loop those the coming pass goes through, mark by mark.
StatesOfPass ==
    IF pc = "loop" /\ change
    THEN resolve_states(KB(mines, safes, knowledge), 1)
    ELSE {KB(mines, safes, knowledge)}

\* C11: in play driven by the board, every sentence has 0 <= count <= number
\* of its cells, when add_knowledge has returned and after each single
\* mark_mine / mark_safe made inside the call.
SentenceCountsInRange ==
    \A kb \in StatesOfPass :
        \A k \in DOMAIN kb.knowledge :
            /\ 0 <= kb.knowledge[k].count
            /\ kb.knowledge[k].count <= Cardinality(kb.knowledge[k].cells)

\* C11 witness: inside a pass, after one mine of two was marked, a sentence
\* holding it has lost the cell and one of its count and still has cells.
SentenceReducedByMineMark ==
    /\ pc = "loop"
    /\ change
    /\ \E kb \in StatesOfPass :
           /\ Cardinality(kb.mines \ mines) = 1
           /\ \E k \in DOMAIN knowledge :
                  /\ kb.knowledge[k].cells # {}
                  /\ kb.knowledge[k].cells # knowledge[k].cells
                  /\ kb.knowledge[k].count = knowledge[k].count - 1
                  /\ kb.knowledge[k].count >= 1

\* C12: Sentence.mark_mine(cell) removes the cell and decreases count by
\* exactly 1 if the cell is in the sentence, and changes neither cells nor
\* count if it is not.
MarkMineRemovesAndDecrements ==
    op = "Sentence.mark_mine" =>
        IF cell \in appended[1].cells
        THEN /\ knowledge[1].cells = appended[1].cells \ {cell}
             /\ cell \notin knowledge[1].cells
             /\ knowledge[1].count = appended[1].count - 1
        ELSE /\ knowledge[1].cells = appended[1].cells
             /\ knowledge[1].count = appended[1].count

\* C12 witness: mark_mine was called for one of several cells of a sentence.
MarkMineOfMemberCell ==
    /\ op = "Sentence.mark_mine"
    /\ cell \in appended[1].cells
    /\ Cardinality(appended[1].cells) >= 3
    /\ appended[1].count >= 1

\* C13: Sentence.known_mines() returns the cells of the sentence if and only
\* if their number equals count (the empty set for no cells and count 0), and
\* None whenever it does not.
KnownMinesIffFull ==
    op = "Sentence.known_mines" =>
        LET s == knowledge[1]
        IN  /\ (ret = Just(s.cells)) <=> (Cardinality(s.cells) = s.count)
            /\ (Cardinality(s.cells) # s.count) => ret = Nothing
            /\ (s.cells = {} /\ s.count = 0) => (~ret.none /\ ret.cells = {})

\* C13 witness: known_mines was called on the sentence without cells and with
\* count 0 and returned a set, not None.
KnownMinesOfEmptySentence ==
    /\ op = "Sentence.known_mines"
    /\ knowledge[1].cells = {}
    /\ knowledge[1].count = 0
    /\ ~ret.none

\* C14: in play driven by the board, when add_knowledge has returned the list
\* holds no sentence with cells whose count is 0 or equals the number of its
\* cells: every such sentence has been resolved.
ReturnsAtFixedPoint ==
    pc = "idle" =>
        \A k \in DOMAIN knowledge :
            knowledge[k].cells # {} =>
                /\ knowledge[k].count # 0
                /\ knowledge[k].count # Cardinality(knowledge[k].cells)

\* C15: in play driven by the board, when add_knowledge has returned, each
\* sentence of the list has exactly count mines of the board among its cells.
SentencesTrueOfBoard ==
    pc = "idle" =>
        \A k \in DOMAIN knowledge :
            Cardinality(knowledge[k].cells \cap board) = knowledge[k].count

\* C15 witness: a call has returned after a pass that found a subset, and the
\* list holds a sentence with a mine whose cells are part of those of a
\* sentence held when the call appended its own.
DerivedSentenceHeld ==
    /\ pc = "idle"
    /\ passes >= 2
    /\ \E k \in DOMAIN knowledge : \E j \in DOMAIN appended :
           /\ knowledge[k].count >= 1
           /\ knowledge[k].cells \subseteq appended[j].cells
           /\ knowledge[k].cells # appended[j].cells
           /\ \A i \in DOMAIN appended : appended[i] # knowledge[k]

\* The distance of add_knowledge's neighbour scan: at most one row and one
\* column apart, the cell itself excluded.
Adjacent(a, b) ==
    /\ a # b
    /\ a[1] - b[1] \in {-1, 0, 1}
    /\ a[2] - b[2] \in {-1, 0, 1}

\* C16: the sentence add_knowledge(cell, count) appends has as cells the
\* in-bounds neighbours of cell that are in none of self.mines, self.safes,
\* self.moves_made at that moment, and as count the given count less the
\* number of in-bounds neighbours in self.mines.
NewSentenceOfUnresolvedNeighbours ==
    (pc = "loop" /\ passes = 0) =>
        LET s == knowledge[Len(knowledge)]
        IN  /\ \A n \in Cells :
                   n \in s.cells <=> /\ Adjacent(n, cell)
                                     /\ n \notin mines
                                     /\ n \notin safes
                                     /\ n \notin moves_made
            /\ s.cells \subseteq Cells
            /\ s.count = count - Cardinality({ n \in Cells : Adjacent(n, cell) /\ n \in mines })

\* C16 witness: a sentence was appended for a cell with a neighbour known as a
\* mine, one known safe and not revealed, one revealed and one undetermined.
NewSentenceBesideResolvedCells ==
    /\ pc = "loop"
    /\ passes = 0
    /\ knowledge[Len(knowledge)].cells # {}
    /\ \E n \in Neighbours(cell) : n \in mines
    /\ \E n \in Neighbours(cell) : n \in safes \ moves_made
    /\ \E n \in Neighbours(cell) : n \in moves_made
    /\ knowledge[Len(knowledge)].count < count

\* C17: when add_knowledge has returned, the list holds no two sentences of
\* which one's cells are a strict subset of the other's.
NoStrictSubsetPairLeft ==
    pc = "idle" =>
        \A i, j \in DOMAIN knowledge :
            ~ ( /\ knowledge[i].cells \subseteq knowledge[j].cells
                /\ knowledge[i].cells # knowledge[j].cells )

\* C17 witness: a call that found a subset pair has returned with a list of
\* two or more sentences, one of them derived.
ReturnedAfterSubsumption ==
    /\ pc = "idle"
    /\ passes >= 2
    /\ Len(knowledge) >= 2
    /\ \E k \in DOMAIN knowledge : \A i \in DOMAIN appended : appended[i].cells # knowledge[k].cells

\* C18: when add_knowledge has returned, the list holds no sentence without
\* cells.
NoEmptySentenceLeft ==
    pc = "idle" => \A k \in DOMAIN knowledge : knowledge[k].cells # {}

\* C18 witness: a call has returned that appended a sentence without cells
\* and emptied another sentence by marking its cells.
EmptySentencesPruned ==
    /\ pc = "idle"
    /\ appended # <<>>
    /\ appended[Len(appended)].cells = {}
    /\ \E k \in DOMAIN appended :
           /\ appended[k].cells # {}
           /\ appended[k].cells \subseteq (mines \cup safes)

\* C19: when add_knowledge has returned, no sentence of the list holds a cell
\* that is in self.mines or in self.safes.
SentencesHoldUnresolvedCellsOnly ==
    pc = "idle" =>
        \A k \in DOMAIN knowledge :
            knowledge[k].cells \cap (mines \cup safes) = {}

\* C19 witness: a call has returned with mines and safes deduced and a
\* sentence left in the list.
SentenceLeftBesideResolvedCells ==
    /\ pc = "idle"
    /\ knowledge # <<>>
    /\ mines # {}
    /\ safes \ moves_made # {}
    /\ passes >= 2

\* C20: in play driven by the board with calls for pairwise distinct cells,
\* the list never holds, when a call has returned, two entries with equal
\* cells and equal count.
NoDuplicateSentences ==
    (pc = "idle" /\ Cardinality(moves_made) = calls) =>
        \A i, j \in DOMAIN knowledge : i # j => knowledge[i] # knowledge[j]

=============================================================================
